---- MODULE Spec2Model ----
(***************************************************************************)
(* Model of src/CRUD.ts: a script that stores text facts as embedded       *)
(* points in a Qdrant collection, searches them for a query and asks a     *)
(* completion service for an answer grounded in the retrieved facts.       *)
(*                                                                         *)
(* The script is a single chain of awaited calls.  Every await is split    *)
(* into the step that issues the external request and the step that        *)
(* resumes the function when the request returns (or fails).  The vector   *)
(* store is modelled by the set of points it holds and the queue of write  *)
(* operations it has received but not yet applied.                         *)
(*                                                                         *)
(* Spec     : any caller awaiting the exported functions one after the     *)
(*            other, with arbitrary arguments.                             *)
(* MainSpec : the function main (lines 113-150).                           *)
(***************************************************************************)
EXTENDS Integers, Sequences, FiniteSets, TLC

VARIABLES
  collection,      \* the points of 'example_collection' held by the store
  storeQueue,      \* write operations received by the store, not yet applied
  embeddingModel,  \* the embedding service: text -> vector (opaque, fixed)
  inflight,        \* external requests issued and not yet answered
  call,            \* the function of this file being executed by the driver
  pc,              \* the await the function is suspended at
  calls,           \* external requests issued so far by the current call
  embedding,       \* local `embedding` (lines 31, 72)
  points,          \* local `points` of readPoint (line 48)
  searchResults,   \* local `searchResults` (lines 73, 84)
  response,        \* value returned by generateResponse
  before,          \* the points the store held when the current call began
  mainPc,          \* statement of main being executed (0: main not running)
  mainTrace,       \* the completed statements of main, in order
  status           \* "running", "done" (main resolved), "error" (line 150 catch)

vars == <<collection, storeQueue, embeddingModel, inflight, call, pc, calls,
          embedding, points, searchResults, response, before, mainPc, mainTrace,
          status>>

(***************************************************************************)
(* Bounds and program constants                                            *)
(***************************************************************************)
MaxId == 4          \* point ids offered to the functions: 1..MaxId
MaxDelete == 2      \* longest id array handed to deletePoints

fact1 == "The Earth orbits the Sun."
fact2 == "The human body contains 206 bones."
fact3 == "The Eiffel Tower is located in Paris, France."
query == "How many bones are in the human body?"
query2 == "Where is the Eiffel Tower located?"

NoInformation == "I could not find any relevant information."
SystemContent ==
  "You are an assistant that answers questions based on facts from a knowledge base."

Ids == 1..MaxId
Texts == {fact1, fact2}
Queries == {query}
MainTexts == {fact1, fact2, fact3, query, query2}

\* Embedding vectors: unit vectors, so that the dot product is the cosine.
Vectors == {<<1, 0>>, <<0, 1>>}

\* message.content of a completion is `string | null`.
CompletionContents == {"<completion text>", "<null>"}

(***************************************************************************)
(* Values                                                                  *)
(***************************************************************************)
Point(id, vector, text) == [id |-> id, vector |-> vector, payload |-> [text |-> text]]

\* What retrieve and search hand back: the payload without the vector.
Record(p) == [id |-> p.id, payload |-> p.payload]

Score(q, v) == q[1] * v[1] + q[2] * v[2]

ScoredPoint(p, q) == [id |-> p.id, score |-> Score(q, p.vector), payload |-> p.payload]

NoCall == [fn |-> "none", id |-> 0, text |-> "", ids |-> {}, query |-> ""]

CreateOrUpdatePointCall(id, text) ==
  [fn |-> "createOrUpdatePoint", id |-> id, text |-> text, ids |-> {}, query |-> ""]
ReadPointCall(id) ==
  [fn |-> "readPoint", id |-> id, text |-> "", ids |-> {}, query |-> ""]
DeletePointsCall(ids) ==
  [fn |-> "deletePoints", id |-> 0, text |-> "", ids |-> ids, query |-> ""]
SearchForFactsCall(q) ==
  [fn |-> "searchForFacts", id |-> 0, text |-> "", ids |-> {}, query |-> q]
GenerateResponseCall(q) ==
  [fn |-> "generateResponse", id |-> 0, text |-> "", ids |-> {}, query |-> q]

\* An external request.  Unused fields keep their neutral value.
Request(svc) ==
  [svc |-> svc, input |-> "", wait |-> FALSE, points |-> <<>>, ids |-> {},
   vector |-> <<>>, limit |-> 0, messages |-> <<>>]

Completed == [call |-> call, points |-> points, searchResults |-> searchResults,
              response |-> response, calls |-> calls]

(***************************************************************************)
(* getOpenAIEmbedding (lines 21-27)                                        *)
(***************************************************************************)
EmbeddingRequest(text) == [Request("embeddings.create") EXCEPT !.input = text]

GetOpenAIEmbedding(text) == embeddingModel[text]

(***************************************************************************)
(* The store behind client.upsert / retrieve / delete / search             *)
(***************************************************************************)
\* Variant: wait: false, the store answers before it applies the write.
UpsertNoWait == FALSE
UpsertWait == TRUE     \* wait: true (line 39)

\* Variant: the delete is not waited for either.
DeleteNoWait == FALSE
DeleteWait == TRUE     \* wait: true (line 64)

\* Variants: another limit handed to client.search.
SearchLimitPlusOne == 3 + 1
SearchLimitOne == 0 + 1
SearchLimit == 3       \* limit: 3 (line 75)

\* The point built by createOrUpdatePoint (lines 32-36).
\* Variant: the payload does not carry the text.
NewPointWithoutText(id, vector, text) == Point(id, vector, "")
NewPoint(id, vector, text) == Point(id, vector, text)

UpsertRequest(point) ==
  [Request("upsert") EXCEPT !.wait = UpsertWait, !.points = <<point>>]

RetrieveRequest(id) == [Request("retrieve") EXCEPT !.ids = {id}]

DeleteRequest(ids) == [Request("delete") EXCEPT !.wait = DeleteWait, !.ids = ids]

SearchRequest(vector) ==
  [Request("search") EXCEPT !.vector = vector, !.limit = SearchLimit]

\* upsert: the point replaces whatever is stored under its id.
Upsert(coll, point) == {p \in coll : p.id # point.id} \cup {point}

\* delete: the listed ids are removed; an id that is not stored is skipped.
Delete(coll, ids) == {p \in coll : p.id \notin ids}

ApplyWrite(coll, req) ==
  IF req.svc = "upsert" THEN Upsert(coll, req.points[1]) ELSE Delete(coll, req.ids)

\* retrieve: every stored point whose id is among the requested ones.
RECURSIVE Records(_)
Records(found) ==
  IF found = {} THEN <<>>
  ELSE LET p == CHOOSE x \in found : TRUE
       IN  <<Record(p)>> \o Records(found \ {p})

Retrieve(coll, ids) == Records({p \in coll : p.id \in ids})

\* search: the `limit` best-scoring points, best first; the order among equal
\* scores is the store's choice, so every admissible answer is produced.
RECURSIVE Search(_, _, _)
Search(coll, q, limit) ==
  IF limit = 0 \/ coll = {} THEN {<<>>}
  ELSE LET best == {p \in coll : \A r \in coll : Score(q, r.vector) <= Score(q, p.vector)}
       IN  UNION {{<<ScoredPoint(p, q)>> \o rest : rest \in Search(coll \ {p}, q, limit - 1)}
                  : p \in best}

(***************************************************************************)
(* generateResponse: the prompt (lines 92, 97-106)                         *)
(***************************************************************************)
RECURSIVE Join(_, _)
Join(seq, sep) ==
  IF Len(seq) = 0 THEN <<>>
  ELSE IF Len(seq) = 1 THEN <<seq[1]>>
  ELSE <<seq[1], sep>> \o Join(Tail(seq), sep)

Facts(results) == Join([i \in 1..Len(results) |-> results[i].payload.text], "\n")

\* The template string of line 104, as the sequence of its pieces.
UserContent(results, q) ==
  <<"Here are some relevant facts:\n">> \o Facts(results)
    \o <<"\n\nPlease respond to the following question: ", q>>

CompletionRequest(results, q) ==
  [Request("chat.completions.create") EXCEPT
     !.messages = << [role |-> "system", content |-> <<SystemContent>>],
                     [role |-> "user", content |-> UserContent(results, q)] >>]

\* Variant: the test of line 86 inverted.
NoFactsInverted(results) == Len(results) # 0
NoFacts(results) == Len(results) = 0     \* line 86

(***************************************************************************)
(* Steps of the functions                                                  *)
(***************************************************************************)
FirstRequest(c) ==
  CASE c.fn = "createOrUpdatePoint" -> EmbeddingRequest(c.text)      \* line 31
    [] c.fn = "readPoint"           -> RetrieveRequest(c.id)         \* line 48
    [] c.fn = "deletePoints"        -> DeleteRequest(c.ids)          \* line 63
    [] c.fn = "searchForFacts"      -> EmbeddingRequest(c.query)     \* line 72
    [] c.fn = "generateResponse"    -> EmbeddingRequest(c.query)     \* lines 84, 72

IsWrite(req) == req.svc \in {"upsert", "delete"}

\* The driver calls one of the functions, which runs up to its first await.
Begin(c) ==
  /\ call' = c
  /\ before' = collection
  /\ LET req == FirstRequest(c)
     IN  /\ inflight' = inflight \cup {req}
         /\ calls' = <<req>>
         /\ pc' = req.svc
         /\ storeQueue' = IF IsWrite(req) THEN Append(storeQueue, req) ELSE storeQueue
  /\ embedding' = <<>>
  /\ points' = <<>>
  /\ searchResults' = <<>>
  /\ response' = ""
  /\ UNCHANGED <<collection, embeddingModel>>

\* openai.embeddings.create returns (line 22): the caller goes on to its
\* next request, the upsert (line 38) or the search (line 73).
EmbeddingReturn ==
  /\ pc = "embeddings.create"
  /\ \E req \in inflight :
       /\ req.svc = "embeddings.create"
       /\ LET e == GetOpenAIEmbedding(req.input)
              next == IF call.fn = "createOrUpdatePoint"
                      THEN UpsertRequest(NewPoint(call.id, e, call.text))
                      ELSE SearchRequest(e)
          IN  /\ embedding' = e
              /\ inflight' = (inflight \ {req}) \cup {next}
              /\ calls' = Append(calls, next)
              /\ pc' = next.svc
              /\ storeQueue' = IF IsWrite(next) THEN Append(storeQueue, next)
                               ELSE storeQueue
  /\ UNCHANGED <<collection, embeddingModel, call, points, searchResults, response,
                 before, mainPc, mainTrace, status>>

\* The store applies the oldest write it has received.
StoreApply ==
  /\ storeQueue # <<>>
  /\ collection' = ApplyWrite(collection, Head(storeQueue))
  /\ storeQueue' = Tail(storeQueue)
  /\ UNCHANGED <<embeddingModel, inflight, call, pc, calls, embedding, points,
                 searchResults, response, before, mainPc, mainTrace, status>>

\* A write is in the queue until the store has applied it.
Applied(req) == \A i \in 1..Len(storeQueue) : storeQueue[i] # req

\* client.upsert / client.delete return (lines 38, 63); with wait the answer
\* is sent once the write is applied.  The function logs and returns.
WriteReturn ==
  /\ pc \in {"upsert", "delete"}
  /\ \E req \in inflight :
       /\ req.svc = pc
       /\ req.wait => Applied(req)
       /\ inflight' = inflight \ {req}
  /\ pc' = "returned"
  /\ UNCHANGED <<collection, storeQueue, embeddingModel, call, calls, embedding,
                 points, searchResults, response, before, mainPc, mainTrace, status>>

\* client.retrieve returns (line 48); readPoint logs and returns the points.
RetrieveReturn ==
  /\ pc = "retrieve"
  /\ \E req \in inflight :
       /\ req.svc = "retrieve"
       /\ points' = Retrieve(collection, req.ids)
       /\ inflight' = inflight \ {req}
  /\ pc' = "returned"
  /\ UNCHANGED <<collection, storeQueue, embeddingModel, call, calls, embedding,
                 searchResults, response, before, mainPc, mainTrace, status>>

\* client.search returns (line 73).  searchForFacts returns the results;
\* generateResponse either returns the fixed answer (lines 86-89) or issues
\* the completion request (line 95).
SearchReturn ==
  /\ pc = "search"
  /\ \E req \in inflight :
       /\ req.svc = "search"
       /\ \E results \in Search(collection, req.vector, req.limit) :
            /\ searchResults' = results
            /\ IF call.fn = "searchForFacts"
               THEN /\ inflight' = inflight \ {req}
                    /\ pc' = "returned"
                    /\ UNCHANGED <<calls, response>>
               ELSE IF NoFacts(results)
               THEN /\ inflight' = inflight \ {req}
                    /\ pc' = "returned"
                    /\ response' = NoInformation
                    /\ UNCHANGED calls
               ELSE LET next == CompletionRequest(results, call.query)
                    IN  /\ inflight' = (inflight \ {req}) \cup {next}
                        /\ calls' = Append(calls, next)
                        /\ pc' = next.svc
                        /\ UNCHANGED response
  /\ UNCHANGED <<collection, storeQueue, embeddingModel, call, embedding, points,
                 before, mainPc, mainTrace, status>>

\* openai.chat.completions.create returns (line 95); line 109.
CompletionReturn ==
  /\ pc = "chat.completions.create"
  /\ \E req \in inflight :
       /\ req.svc = "chat.completions.create"
       /\ inflight' = inflight \ {req}
  /\ \E content \in CompletionContents : response' = content
  /\ pc' = "returned"
  /\ UNCHANGED <<collection, storeQueue, embeddingModel, call, calls, embedding,
                 points, searchResults, before, mainPc, mainTrace, status>>

\* An external request fails: the awaiting function throws.  A write that the
\* store has not applied is lost with the request; an applied one stays.
Fail ==
  /\ \E req \in inflight :
       /\ inflight' = inflight \ {req}
       /\ storeQueue' = SelectSeq(storeQueue, LAMBDA w : w # req)
  /\ pc' = "threw"
  /\ UNCHANGED <<collection, embeddingModel, call, calls, embedding, points,
                 searchResults, response, before, mainPc, mainTrace, status>>

\* Variant: the rejection is swallowed and the caller goes on.
CatchAndContinue ==
  /\ pc = "threw"
  /\ status = "running"
  /\ pc' = "returned"
  /\ UNCHANGED <<collection, storeQueue, embeddingModel, inflight, call, calls,
                 embedding, points, searchResults, response, before, mainPc, mainTrace,
                 status>>

\* No function catches: the rejection reaches main().catch(console.error).
Catch ==
  /\ pc = "threw"
  /\ status = "running"
  /\ status' = "error"
  /\ UNCHANGED <<collection, storeQueue, embeddingModel, inflight, call, pc, calls,
                 embedding, points, searchResults, response, before, mainPc, mainTrace>>

(***************************************************************************)
(* Drivers                                                                 *)
(***************************************************************************)
\* The caller awaits each call: the next one starts when the last returned.
\* Variant: the calls are not awaited.
NotAwaited == TRUE
Awaited == pc \in {"idle", "returned"}

IdArrays == {s \in SUBSET Ids : Cardinality(s) \in 1..MaxDelete}

ClientCalls ==
  {CreateOrUpdatePointCall(id, text) : id \in Ids, text \in Texts}
    \cup {ReadPointCall(id) : id \in Ids}
    \cup {DeletePointsCall(ids) : ids \in IdArrays}
    \cup {SearchForFactsCall(q) : q \in Queries}
    \cup {GenerateResponseCall(q) : q \in Queries}

ClientCall ==
  /\ status = "running"
  /\ Awaited
  /\ \E c \in ClientCalls : Begin(c)
  /\ UNCHANGED <<mainPc, mainTrace, status>>

\* Variant: main reads the points twice and deletes them afterwards.
MainScriptReadsBeforeDelete ==
  << CreateOrUpdatePointCall(1, fact1),
     CreateOrUpdatePointCall(2, fact2),
     CreateOrUpdatePointCall(3, fact3),
     GenerateResponseCall(query),
     ReadPointCall(1),
     ReadPointCall(2),
     ReadPointCall(1),
     ReadPointCall(2),
     DeletePointsCall({1, 2}),
     GenerateResponseCall(query2),
     ReadPointCall(3),
     DeletePointsCall({3}) >>

\* The statements of main, lines 119-146.
MainScript ==
  << CreateOrUpdatePointCall(1, fact1),
     CreateOrUpdatePointCall(2, fact2),
     CreateOrUpdatePointCall(3, fact3),
     GenerateResponseCall(query),
     ReadPointCall(1),
     ReadPointCall(2),
     DeletePointsCall({1, 2}),
     ReadPointCall(1),
     ReadPointCall(2),
     GenerateResponseCall(query2),
     ReadPointCall(3),
     DeletePointsCall({3}) >>

MainCall ==
  /\ status = "running"
  /\ Awaited
  /\ mainPc < Len(MainScript)
  /\ mainPc' = mainPc + 1
  /\ mainTrace' = IF mainPc = 0 THEN mainTrace ELSE Append(mainTrace, Completed)
  /\ Begin(MainScript[mainPc + 1])
  /\ UNCHANGED status

MainDone ==
  /\ status = "running"
  /\ Awaited
  /\ mainPc = Len(MainScript)
  /\ mainTrace' = Append(mainTrace, Completed)
  /\ status' = "done"
  /\ UNCHANGED <<collection, storeQueue, embeddingModel, inflight, call, pc, calls,
                 embedding, points, searchResults, response, before, mainPc>>

(***************************************************************************)
(* Specifications                                                          *)
(***************************************************************************)
InitCommon ==
  /\ storeQueue = <<>>
  /\ inflight = {}
  /\ call = NoCall
  /\ pc = "idle"
  /\ calls = <<>>
  /\ embedding = <<>>
  /\ points = <<>>
  /\ searchResults = <<>>
  /\ response = ""
  /\ mainTrace = <<>>
  /\ status = "running"

Init ==
  /\ embeddingModel \in [Texts \cup Queries -> Vectors]
  /\ collection = {}
  /\ before = {}
  /\ mainPc = 0
  /\ InitCommon

Next ==
  \/ ClientCall
  \/ EmbeddingReturn
  \/ StoreApply
  \/ WriteReturn
  \/ RetrieveReturn
  \/ SearchReturn
  \/ CompletionReturn
  \/ Fail
  \/ Catch

Spec == Init /\ [][Next]_vars

\* main starts on a collection that holds nothing, or what an earlier run of
\* main that stopped half-way left behind.
MainLeftovers ==
  {{Point(i, embeddingModel[MainScript[i].text], MainScript[i].text) : i \in s} :
     s \in SUBSET {1, 2, 3}}

MainInit ==
  /\ embeddingModel \in [MainTexts -> Vectors]
  /\ collection \in MainLeftovers
  /\ before = collection
  /\ mainPc = 0
  /\ InitCommon

MainNext ==
  \/ MainCall
  \/ MainDone
  \/ EmbeddingReturn
  \/ StoreApply
  \/ WriteReturn
  \/ RetrieveReturn
  \/ SearchReturn
  \/ CompletionReturn
  \/ Fail
  \/ Catch

MainSpec == MainInit /\ [][MainNext]_vars

(***************************************************************************)
(* Properties of the functions (checked under Spec)                        *)
(***************************************************************************)
Returned(fn) == pc = "returned" /\ call.fn = fn

Stored(coll, id) == {p \in coll : p.id = id}

StoredIds(coll) == {p.id : p \in coll}

\* readPoint hands back exactly the stored points of the id it was asked for.
ReadReturnsStored ==
  Returned("readPoint") =>
    /\ Len(points) = Cardinality(Stored(collection, call.id))
    /\ \A i \in 1..Len(points) :
         \E p \in Stored(collection, call.id) :
           points[i] = [id |-> p.id, payload |-> p.payload]

\* Nothing touches the collection between the return of one call and the
\* return of a readPoint that follows it.
QuietUntilRead == (pc \in {"idle", "returned", "retrieve"}) => collection' = collection

\* When createOrUpdatePoint has returned, the write is applied: the
\* collection holds the point (id, text).
IngestVisible ==
  Returned("createOrUpdatePoint") =>
    /\ storeQueue = <<>>
    /\ Stored(collection, call.id) =
         {Point(call.id, embeddingModel[call.text], call.text)}

\* C1 - read-after-write: once createOrUpdatePoint(id, text) has returned, the
\* point (id, text) is visible in the store (the upsert waits for the write),
\* nothing changes the store before an immediately following readPoint(id)
\* returns, and that readPoint returns the stored point of the id: a
\* non-empty result whose payload text is the ingested text.
ReadAfterWrite ==
  /\ [](IngestVisible /\ ReadReturnsStored)
  /\ [][QuietUntilRead]_vars

\* A createOrUpdatePoint of an id that was not stored has returned.
ReadAfterWriteWitness ==
  /\ Returned("createOrUpdatePoint")
  /\ Stored(before, call.id) = {}
  /\ Stored(collection, call.id) # {}

DeleteApplied ==
  Returned("deletePoints") =>
    /\ storeQueue = <<>>
    /\ collection = {p \in before : p.id \notin call.ids}
    /\ \A id \in call.ids : Stored(collection, id) = {}
    /\ (call.ids \cap StoredIds(before) = {}) => collection = before

\* C2 - delete-then-retrieve: once deletePoints(ids) has returned, none of the
\* ids is stored, every other point is as it was, a delete of ids that were
\* not stored has left the collection as it was (and has returned, not
\* thrown), and an immediately following readPoint(id) returns the stored
\* points of id, that is none.
DeleteThenRetrieve ==
  /\ [](DeleteApplied /\ ReadReturnsStored)
  /\ [][QuietUntilRead]_vars

\* deletePoints of one stored and one absent id has returned.
DeleteThenRetrieveWitness ==
  /\ Returned("deletePoints")
  /\ call.ids \cap StoredIds(before) # {}
  /\ call.ids \ StoredIds(before) # {}
  /\ collection # {}

CompletionRequests == {i \in 1..Len(calls) : calls[i].svc = "chat.completions.create"}

\* C3 - when the search of generateResponse returns no result, the function
\* returns the fixed answer and has issued no completion request; a
\* completion request is issued only right after a search with a result.
NoFactsNoCompletion ==
  /\ (Returned("generateResponse") /\ searchResults = <<>>) =>
       (response = "I could not find any relevant information."
          /\ CompletionRequests = {})
  /\ \A i \in CompletionRequests :
       /\ i > 1
       /\ calls[i - 1].svc = "search"
       /\ Len(searchResults) >= 1

NoFactsNoCompletionWitness ==
  /\ Returned("generateResponse")
  /\ searchResults = <<>>
  /\ collection = {}

\* C4 - createOrUpdatePoint overwrites by id: when createOrUpdatePoint(id,
\* text) has returned, the collection is the one before the call with the
\* point of id replaced by the single point (id, text), whatever text id held
\* before; if it held the same text the collection is unchanged; and a
\* readPoint returns the stored points of its id, at most one.
IngestOverwrites ==
  /\ Returned("createOrUpdatePoint") =>
       LET new == Point(call.id, embeddingModel[call.text], call.text)
       IN  /\ collection = {p \in before : p.id # call.id} \cup {new}
           /\ Cardinality(Stored(collection, call.id)) = 1
           /\ \A p \in Stored(collection, call.id) : p.payload = [text |-> call.text]
           /\ new \in before => collection = before
  /\ ReadReturnsStored
  /\ Returned("readPoint") => Len(points) <= 1

\* createOrUpdatePoint(id, textB) has returned on a collection that held
\* (id, textA).
IngestOverwritesWitness ==
  /\ Returned("createOrUpdatePoint")
  /\ \E p \in before : p.id = call.id /\ p.payload.text # call.text
  /\ Cardinality(collection) > 1

\* C5 - searchForFacts returns at most 3 points, all stored, with their
\* scores against the query, best first (no score increases along the
\* result and no point left out scores higher than one returned); nothing
\* when the collection is empty.
SearchTopK ==
  (Returned("searchForFacts") \/ Returned("generateResponse")) =>
    LET r == searchResults
        q == embeddingModel[call.query]
    IN  /\ Len(r) <= 3
        /\ \A i \in 1..Len(r) :
             \E p \in collection :
               /\ p.id = r[i].id
               /\ p.payload = r[i].payload
               /\ r[i].score = Score(q, p.vector)
        /\ \A i, j \in 1..Len(r) : i < j => r[i].score >= r[j].score /\ r[i].id # r[j].id
        /\ \A p \in collection :
             (\A i \in 1..Len(r) : r[i].id # p.id) =>
               (Len(r) = 3 /\ r[3].score >= Score(q, p.vector))
        /\ collection = {} => r = <<>>

\* A search of a collection of more than 3 points with different scores.
SearchTopKWitness ==
  /\ Returned("searchForFacts")
  /\ Cardinality(collection) > 3
  /\ Len(searchResults) = 3
  /\ searchResults[1].score > searchResults[3].score

(***************************************************************************)
(* Properties of main (checked under MainSpec)                             *)
(***************************************************************************)
\* C6 - in main, once facts 1 and 2 are ingested, the search of
\* generateResponse("How many bones are in the human body?") returns fact 2,
\* and the function issues one completion request whose user message is the
\* header, the retrieved texts in ranked order joined by newlines, and the
\* question; so it contains the text of fact 2.
EndToEndGrounding ==
  (mainPc = 4 /\ pc \in {"chat.completions.create", "returned"}) =>
    /\ \E i \in 1..Len(searchResults) :
         /\ searchResults[i].id = 2
         /\ searchResults[i].payload.text = "The human body contains 206 bones."
    /\ Cardinality(CompletionRequests) = 1
    /\ \A i \in CompletionRequests :
         LET user == calls[i].messages[2]
             n == Len(searchResults)
         IN  /\ Len(calls[i].messages) = 2
             /\ user.role = "user"
             /\ \E k \in 1..Len(user.content) :
                  user.content[k] = "The human body contains 206 bones."
             /\ Len(user.content) = 2 * n + 2
             /\ user.content[1] = "Here are some relevant facts:\n"
             /\ \A k \in 1..n : user.content[2 * k] = searchResults[k].payload.text
             /\ \A k \in 1..(n - 1) : user.content[2 * k + 1] = "\n"
             /\ user.content[2 * n + 1] = "\n\nPlease respond to the following question: "
             /\ user.content[2 * n + 2] = "How many bones are in the human body?"

\* The first answer of main has returned, with fact 2 ranked last.
EndToEndGroundingWitness ==
  /\ mainPc = 4
  /\ Returned("generateResponse")
  /\ Len(searchResults) = 3
  /\ searchResults[3].id = 2
  /\ response # "I could not find any relevant information."

FailureStep ==
  (pc # "threw" /\ pc' = "threw") =>
    /\ inflight' = {}
    /\ calls' = calls
    /\ collection' = collection
    /\ mainPc' = mainPc
    /\ mainTrace' = mainTrace

ReportStep ==
  (pc = "threw" /\ status = "running") =>
    /\ status' = "error"
    /\ UNCHANGED <<collection, storeQueue, inflight, call, pc, calls, mainPc, mainTrace>>

\* C7 - a failing external request is not retried and nothing is rolled back:
\* the step at which it fails issues no request and leaves the collection as
\* it is, the only step after it is the report of the error by main's catch,
\* and after that report nothing happens any more: no further request, no
\* further statement of main, no change of the collection.
FailurePropagates ==
  /\ [][FailureStep /\ ReportStep /\ (status = "error" => UNCHANGED vars)]_vars
  /\ [](status = "error" =>
          /\ pc = "threw"
          /\ inflight = {}
          /\ storeQueue = <<>>
          /\ Len(mainTrace) = mainPc - 1)

\* main stopped at its 8th statement; the points written before are kept.
FailurePropagatesWitness ==
  /\ status = "error"
  /\ mainPc = 8
  /\ StoredIds(collection) = {3}

ServiceOrder(fn) ==
  CASE fn = "createOrUpdatePoint" -> <<"embeddings.create", "upsert">>
    [] fn = "readPoint"           -> <<"retrieve">>
    [] fn = "deletePoints"        -> <<"delete">>
    [] fn = "searchForFacts"      -> <<"embeddings.create", "search">>
    [] fn = "generateResponse"    -> <<"embeddings.create", "search",
                                       "chat.completions.create">>
    [] OTHER                      -> <<>>

\* C8 - at most one external request is outstanding, and it is the last one
\* issued; the requests of a call are issued in the order embedding, upsert
\* (ingest) and embedding, search, completion (answer), each after the
\* previous one was answered; the store never holds more than the one write
\* of the outstanding request.
SequentialCalls ==
  /\ Cardinality(inflight) <= 1
  /\ inflight # {} => (Len(calls) > 0 /\ inflight = {calls[Len(calls)]}
                         /\ pc = calls[Len(calls)].svc)
  /\ Len(calls) <= Len(ServiceOrder(call.fn))
  /\ \A i \in 1..Len(calls) : calls[i].svc = ServiceOrder(call.fn)[i]
  /\ Len(storeQueue) <= 1
  /\ storeQueue # <<>> => Head(storeQueue) \in inflight
  /\ pc = "upsert" =>
       /\ embedding = embeddingModel[call.text]
       /\ calls[2].points[1].vector = embedding
  /\ pc = "search" =>
       /\ embedding = embeddingModel[call.query]
       /\ calls[2].vector = embedding

\* The completion request of the second answer is outstanding, alone.
SequentialCallsWitness ==
  /\ mainPc = 10
  /\ pc = "chat.completions.create"
  /\ Cardinality(inflight) = 1

ExpectedFns ==
  << "createOrUpdatePoint", "createOrUpdatePoint", "createOrUpdatePoint",
     "generateResponse", "readPoint", "readPoint", "deletePoints",
     "readPoint", "readPoint", "generateResponse", "readPoint", "deletePoints" >>

\* The statements of main completed so far, with the one in progress.
Steps ==
  IF pc \in {"idle", "threw"} \/ status = "done" THEN mainTrace
  ELSE Append(mainTrace, [call |-> call, points |-> points,
                          searchResults |-> searchResults, response |-> response,
                          calls |-> calls])

\* C9 - main performs, in this order: the ingestion of the three facts, the
\* first answer, the reads of points 1 and 2, their deletion, the reads of
\* the deleted points, the second answer, the read and the deletion of point
\* 3.  The reads after the deletion return nothing and main goes on; when
\* main has resolved all twelve statements have completed.
MainOrder ==
  /\ Len(Steps) <= 12
  /\ \A i \in 1..Len(Steps) : Steps[i].call.fn = ExpectedFns[i]
  /\ \A i \in 1..Len(mainTrace) :
       /\ i \in 1..3 => mainTrace[i].call.id = i
       /\ i \in {5, 6} => mainTrace[i].call.id = i - 4
       /\ i = 7 => mainTrace[i].call.ids = {1, 2}
       /\ i \in {8, 9} => (mainTrace[i].call.id = i - 7 /\ mainTrace[i].points = <<>>)
       /\ i = 11 => (mainTrace[i].call.id = 3 /\ Len(mainTrace[i].points) = 1)
       /\ i = 12 => mainTrace[i].call.ids = {3}
  /\ Len(mainTrace) >= 3 =>
       {mainTrace[i].call.text : i \in 1..3} =
         {"The Earth orbits the Sun.", "The human body contains 206 bones.",
          "The Eiffel Tower is located in Paris, France."}
  /\ Len(mainTrace) >= 10 =>
       (mainTrace[4].call.query = "How many bones are in the human body?"
          /\ mainTrace[10].call.query = "Where is the Eiffel Tower located?")
  /\ status = "done" => Len(mainTrace) = 12

MainOrderWitness ==
  /\ status = "done"
  /\ Len(mainTrace) = 12
  /\ mainTrace[8].points = <<>>
  /\ mainTrace[9].points = <<>>

ReadBack(from, to, id) ==
  \E i \in from..to :
    /\ i <= Len(mainTrace)
    /\ mainTrace[i].call.fn = "readPoint"
    /\ mainTrace[i].call.id = id

Deleted(from, to, id) ==
  \E i \in from..to :
    /\ i <= Len(mainTrace)
    /\ mainTrace[i].call.fn = "deletePoints"
    /\ id \in mainTrace[i].call.ids

\* C10 - every point whose text was in the prompt of the first answer (the
\* results of the first search) has been read back and deleted when main
\* starts the second answer, and every point that was in the prompt of the
\* second answer has been read back and deleted when main resolves.
ReadsAndDeletesUsedPoints ==
  /\ mainPc >= 10 =>
       \A k \in 1..Len(mainTrace[4].searchResults) :
         LET id == mainTrace[4].searchResults[k].id
         IN  ReadBack(5, 9, id) /\ Deleted(5, 9, id) /\ id \notin StoredIds(before)
  /\ status = "done" =>
       \A k \in 1..Len(mainTrace[10].searchResults) :
         LET id == mainTrace[10].searchResults[k].id
         IN  ReadBack(11, 12, id) /\ Deleted(11, 12, id)

====
